---- MODULE Spec2Model ----
(***************************************************************************)
(* Model of src/net.c: the client side of the JBOD network protocol.       *)
(*                                                                         *)
(*   nread / nwrite          full-length transfer loops over read/write    *)
(*   send_packet             request encoder                               *)
(*   recv_packet             response decoder                              *)
(*   jbod_connect/disconnect life cycle of the global descriptor cli_sd    *)
(*   jbod_client_operation   one request/response exchange                 *)
(*                                                                         *)
(* One step of the model is one system call (read, write, socket, connect, *)
(* close) together with the straight-line code that follows it up to the   *)
(* next system call or to the return of the public function.               *)
(*                                                                         *)
(* Spec    is the whole program: connect, disconnect and exchanges.        *)
(* SpecIO  runs nread and nwrite alone, for every length 0..MaxLen and     *)
(*         every way read/write can split the transfer.                    *)
(***************************************************************************)
EXTENDS Integers, Sequences, FiniteSets, TLC

VARIABLES
    little_endian,  \* byte order of the host the program was built for
    cli_sd,         \* net.c:15, the global descriptor
    open_fds,       \* descriptors of the process that are open
    connected,      \* open descriptors that are connected stream sockets
    pc,             \* position of the caller: idle, send, recv_hdr, recv_blk
                    \* (SpecIO: nread, nwrite, read_done, write_done)
    op,             \* jbod_client_operation: parameter op
    block,          \* the caller's block buffer (256 bytes)
    packet,         \* local array packet[] of send_packet / recv_packet
                    \* (SpecIO: the buf argument)
    len,            \* nread/nwrite: parameter len
    r_byte,         \* nread: bytes read so far
    w_byte,         \* nwrite: bytes written so far
    status,         \* bool status: what the last nread/nwrite returned
    rop,            \* recv_packet: *op
    ret,            \* recv_packet: *ret
    result,         \* return value of the last jbod_client_operation
    returned,       \* TRUE when the last jbod_client_operation has returned
    conn_ret,       \* return value of the last jbod_connect
    \* history of the last call of a public function
    last_call,      \* none, connect, disconnect or operation
    sd0,            \* cli_sd when that call was made
    conn_how,       \* jbod_connect: what inet_aton, socket and connect did
    made,           \* jbod_connect: the descriptors socket() returned
    closed,         \* jbod_disconnect: the arguments it gave to close()
    instream,       \* bytes the peer has sent that are not yet read
    in_eof,         \* the peer closes its end after these bytes
    outstream,      \* bytes written to the descriptor in this exchange
    \* history of the current exchange / transfer
    block0,         \* the caller's buffer when the call was made
    resp0,          \* the inbound bytes when the call was made
    req_len,        \* length of the request packet send_packet built
    sent_ok,        \* send_packet of this exchange returned true
    err,            \* a read or write of this exchange returned -1
    zero_reads,     \* number of reads of this transfer that returned 0
    partials,       \* number of short reads/writes of this transfer
    over,           \* a read/write was issued with all len bytes already moved
    nreads          \* number of nread invocations of this exchange

vars == << little_endian, cli_sd, open_fds, connected, pc, op, block, packet,
           len, r_byte, w_byte, status, rop, ret, result, returned, conn_ret,
           last_call, sd0, conn_how, made, closed, instream,
           in_eof, outstream, block0, resp0, req_len, sent_ok, err,
           zero_reads, partials, over, nreads >>

\* what the steps inside an exchange leave alone
call_hist == << last_call, sd0, conn_how, made, closed >>

(***************************************************************************)
(* Program constants.  HEADER_LEN, JBOD_BLOCK_SIZE and JBOD_WRITE_BLOCK    *)
(* are defined in net.h and jbod.h, which are not among the source files:  *)
(* the two lengths are those of the wire format (5-byte header, 256-byte   *)
(* block); JBOD_WRITE_BLOCK is the number of the WRITE_BLOCK command, and  *)
(* the opcodes of Ops are built from it.  FirstFd is the first descriptor  *)
(* socket() can return in a process with stdin, stdout and stderr open.    *)
(***************************************************************************)
HEADER_LEN == 5
JBOD_BLOCK_SIZE == 256
JBOD_WRITE_BLOCK == 5
FirstFd == 3

(***************************************************************************)
(* Bounds of the model.                                                    *)
(***************************************************************************)
MaxLen == 4         \* SpecIO: largest len given to nread/nwrite
MaxZeroReads == 2   \* zero-length reads followed in one transfer
MaxOpen == 2        \* descriptor limit: socket() fails beyond it
MaxPartial == 1     \* Spec: short reads/writes followed in one transfer
CutHdr == 3         \* a peer that closes inside the header, after CutHdr bytes
CutBlk == 105       \* a peer that closes inside the block, after CutBlk bytes

(***************************************************************************)
(* Sequences of bytes.                                                     *)
(***************************************************************************)
Max(a, b) == IF a > b THEN a ELSE b
Min(a, b) == IF a < b THEN a ELSE b

Take(s, n) == [i \in 1..Min(Max(n, 0), Len(s)) |-> s[i]]
Drop(s, n) == [i \in 1..(Len(s) - Min(Max(n, 0), Len(s))) |-> s[i + Max(n, 0)]]
Slice(s, off, n) == Take(Drop(s, off), n)

\* read(fd, buf, ...): every read stores at the start of buf
CopyIn_no_offset(buf, off, bytes) ==
    [i \in 1..Len(buf) |-> IF i <= Len(bytes) THEN bytes[i] ELSE buf[i]]

\* read(fd, &buf[r_byte], ...) storing the bytes it got: buf[off..off+n-1]
CopyIn(buf, off, bytes) ==
    [i \in 1..Len(buf) |->
        IF i > off /\ i <= off + Len(bytes) THEN bytes[i - off] ELSE buf[i]]

(***************************************************************************)
(* 32-bit words and their bytes.                                           *)
(***************************************************************************)
Byte(x, k) == (x \div (256 ^ k)) % 256

\* the big-endian encoding of a 32-bit number (most significant byte first)
BE4(x) == << Byte(x, 3), Byte(x, 2), Byte(x, 1), Byte(x, 0) >>
\* the number whose big-endian encoding is b
FromBE4(b) == ((b[1] * 256 + b[2]) * 256 + b[3]) * 256 + b[4]

Bswap32(x) == FromBE4(<< Byte(x, 0), Byte(x, 1), Byte(x, 2), Byte(x, 3) >>)

\* htonl on this host
htonl(x) == IF little_endian THEN Bswap32(x) ELSE x

\* memcpy(dst, &word, 4): the object representation of a uint32_t
WordBytes(x) ==
    IF little_endian
    THEN << Byte(x, 0), Byte(x, 1), Byte(x, 2), Byte(x, 3) >>
    ELSE BE4(x)

\* memcpy(&word, src, 4)
BytesWord(b) ==
    IF little_endian
    THEN FromBE4(<< b[4], b[3], b[2], b[1] >>)
    ELSE FromBE4(b)

\* send_packet: cmd = (op & (0x3f << 12)) >> 12
Cmd(o) == (o \div 4096) % 64

(***************************************************************************)
(* nread (net.c:20-36) and nwrite (net.c:41-53): loop test and error test. *)
(***************************************************************************)
\* a loop that stops one byte early
nread_loop_short(r, l) == r + 1 < l
\* while (r_byte < len)
nread_loop(r, l) == r < l
\* if (num == -1) return false;
nread_failed(num) == num = -1

\* a loop that is never entered: nwrite returns true with nothing written
nwrite_loop_never(w, l) == w > l
\* an if in place of the while: at most one write is issued
nwrite_loop_once(w, l) == w < l /\ w = 0
\* while (w_byte < len)
nwrite_loop(w, l) == w < l
\* an error test that is never true: the loop goes on after a failed write
nwrite_failed_never(num) == FALSE
\* if (num == -1) return false;
nwrite_failed(num) == num = -1

(***************************************************************************)
(* send_packet (net.c:110-138): the bytes of packet[] handed to nwrite.    *)
(* For a command other than JBOD_WRITE_BLOCK, memcpy(packet, &t_op,        *)
(* HEADER_LEN) copies HEADER_LEN bytes out of the 4-byte object t_op: the  *)
(* bytes past its end are whatever lies behind it on the stack (junk).     *)
(***************************************************************************)
\* send_packet without htonl: the opcode goes out in host byte order
send_packet_host_order(o, blk, junk) ==
    IF Cmd(o) = JBOD_WRITE_BLOCK
    THEN WordBytes(o) \o << 2 >> \o Take(blk, 256)
    ELSE WordBytes(o) \o [i \in 1..(HEADER_LEN - 4) |-> junk]

send_packet(o, blk, junk) ==
    IF Cmd(o) = JBOD_WRITE_BLOCK
    THEN WordBytes(htonl(o)) \o << 2 >> \o Take(blk, 256)
    ELSE WordBytes(htonl(o)) \o [i \in 1..(HEADER_LEN - 4) |-> junk]

(***************************************************************************)
(* recv_packet (net.c:69-99): the two tests of the status byte.            *)
(***************************************************************************)
\* a test of the whole status byte instead of its bit 0
recv_failed_exact(r) == r = 1
\* a missing test of bit 0
recv_failed_never(r) == FALSE
\* if (*ret & 1) return false;
recv_failed(r) == r % 2 = 1
\* a test of bit 2 in place of bit 1
recv_has_block_bit2(r) == (r \div 4) % 2 = 1
\* a missing test of bit 1: the block is never read
recv_has_block_never(r) == FALSE
\* if (*ret & 2) nread(sd, JBOD_BLOCK_SIZE, block)
recv_has_block(r) == (r \div 2) % 2 = 1

(***************************************************************************)
(* Inputs: opcodes, blocks, responses of the peer, results of read/write.  *)
(***************************************************************************)
\* 0x00000000 (command 0), 0x00005012 and 0x01045034 (command WRITE_BLOCK,
\* the second with bits set outside the command field), 0x00004012 (the
\* command before WRITE_BLOCK).  Every byte of these opcodes is below 128, so
\* that no word built from their bytes in either order leaves the integers
\* TLC computes with.
Ops == { 0,
         JBOD_WRITE_BLOCK * 4096 + 18,
         17039360 + JBOD_WRITE_BLOCK * 4096 + 52,
         (JBOD_WRITE_BLOCK - 1) * 4096 + 18 }

BlockAA == [i \in 1..JBOD_BLOCK_SIZE |-> 170]
BlockUp == [i \in 1..JBOD_BLOCK_SIZE |-> i - 1]
BlockDown == [i \in 1..JBOD_BLOCK_SIZE |-> JBOD_BLOCK_SIZE - i]

\* what the caller's buffer holds when it calls
Blocks == {BlockAA, BlockUp}
\* bytes that may lie behind t_op on the stack
JunkBytes == {0, 255}

\* The responses of the peer to a request for opcode o: a header echoing o
\* with each status, followed by a block when status bit 1 is set; the same
\* cut short by a close; and the bytes received from the client echoed back.
RespKinds(o) ==
    {"ok", "fail", "blockAA", "blockDown", "fail_block", "cut_hdr", "cut_blk"}
    \cup (IF Cmd(o) = JBOD_WRITE_BLOCK THEN {"echo"} ELSE {})

RespBytes(o, received, kind) ==
    LET hdr(s) == BE4(o) \o << s >>
    IN  CASE kind = "ok" -> hdr(0)
          [] kind = "fail" -> hdr(1)
          [] kind = "blockAA" -> hdr(2) \o BlockAA
          [] kind = "blockDown" -> hdr(2) \o BlockDown
          [] kind = "fail_block" -> hdr(3) \o BlockDown
          [] kind = "cut_hdr" -> Take(hdr(2) \o BlockDown, CutHdr)
          [] kind = "cut_blk" -> Take(hdr(2) \o BlockDown, CutBlk)
          [] kind = "echo" -> received

RespEof(kind) == kind \in {"cut_hdr", "cut_blk"}

\* The counts a read or write asked for `want` bytes can return when it
\* moves data: any count in SpecIO; in an exchange the whole, or half of it
\* (rounded up) for at most MaxPartial calls of a transfer.
Chunks(want) ==
    IF want <= 0 THEN {0}
    ELSE IF pc \in {"nread", "nwrite"} THEN 1..want
    ELSE IF partials < MaxPartial THEN {want, (want + 1) \div 2}
    ELSE {want}

\* the short reads/writes of the transfer after one that returned num
Partials(want, num) ==
    IF num > 0 /\ num < want /\ pc \notin {"nread", "nwrite"}
    THEN partials + 1 ELSE partials

\* the junk that matters for opcode o
JunkFor(o) == IF Cmd(o) = JBOD_WRITE_BLOCK THEN {0} ELSE JunkBytes

\* results of read(cli_sd, ., want): an error; or a count of the bytes that
\* have arrived; or 0 once the peer has closed and nothing is left; with
\* nothing to read from an open peer the call blocks
ReadOutcomes(want) ==
    IF cli_sd \notin connected THEN {-1}
    ELSE {-1} \cup
         (IF want > 0 /\ Len(instream) > 0
          THEN Chunks(Min(want, Len(instream)))
          ELSE IF (want <= 0 \/ in_eof) /\ zero_reads < MaxZeroReads
               THEN {0} ELSE {})

\* results of write(cli_sd, ., want); on a descriptor that is not a connected
\* socket (cli_sd = -1, a socket whose connect failed) write fails
WriteOutcomes(want) ==
    IF cli_sd \notin connected THEN {-1}
    ELSE {-1} \cup (IF want > 0 THEN Chunks(want) ELSE {})

\* bytes of the inbound stream consumed by this exchange
Consumed == Len(resp0) - Len(instream)

(***************************************************************************)
(* Initial state of the program: cli_sd = -1, no call made yet.            *)
(***************************************************************************)
Init ==
    /\ little_endian \in BOOLEAN
    /\ cli_sd = -1
    /\ open_fds = {}
    /\ connected = {}
    /\ pc = "idle"
    /\ op = 0
    /\ block = BlockAA
    /\ packet = << >>
    /\ len = 0
    /\ r_byte = 0
    /\ w_byte = 0
    /\ status = FALSE
    /\ rop = 0
    /\ ret = 0
    /\ result = 0
    /\ returned = FALSE
    /\ conn_ret = FALSE
    /\ last_call = "none"
    /\ sd0 = -1
    /\ conn_how = "none"
    /\ made = {}
    /\ closed = {}
    /\ instream = << >>
    /\ in_eof = FALSE
    /\ outstream = << >>
    /\ block0 = BlockAA
    /\ resp0 = << >>
    /\ req_len = 0
    /\ sent_ok = FALSE
    /\ err = FALSE
    /\ zero_reads = 0
    /\ partials = 0
    /\ over = FALSE
    /\ nreads = 0

\* The history variables describe the last exchange up to the next call of
\* a public function: a call of jbod_connect or jbod_disconnect ends it.
\* fresh: cli_sd names another descriptor or none after the call, and the
\* unread bytes of the old connection stay with the old descriptor.
NoExchange(fresh) ==
    /\ instream' = (IF fresh THEN << >> ELSE instream)
    /\ in_eof' = (IF fresh THEN FALSE ELSE in_eof)
    /\ resp0' = (IF fresh THEN << >> ELSE instream)
    /\ op' = 0
    /\ status' = FALSE
    /\ rop' = 0
    /\ ret' = 0
    /\ result' = 0
    /\ returned' = FALSE
    /\ outstream' = << >>
    /\ block0' = block
    /\ req_len' = 0
    /\ sent_ok' = FALSE
    /\ err' = FALSE
    /\ zero_reads' = 0
    /\ partials' = 0
    /\ over' = FALSE
    /\ nreads' = 0

(***************************************************************************)
(* jbod_connect (net.c:145-169).  how: what inet_aton, socket and connect  *)
(* do.  socket() returns the lowest free descriptor, or -1 when the        *)
(* process has MaxOpen sockets open or the system refuses one.             *)
(***************************************************************************)
NewFd == CHOOSE fd \in FirstFd..(FirstFd + MaxOpen) :
             /\ fd \notin open_fds
             /\ \A g \in FirstFd..(fd - 1) : g \in open_fds

\* inet_aton(ip, ...) == 0 is the malformed address (net.c:151)
addr_ok_always(how) == TRUE

addr_ok(how) == how # "bad_addr"

\* what inet_aton, socket and connect can do in this state
ConnectOutcomes ==
    IF Cardinality(open_fds) >= MaxOpen
    THEN {"bad_addr", "no_socket"}
    ELSE {"bad_addr", "no_socket", "refused", "ok"}

jbod_connect ==
    /\ pc = "idle"
    /\ \E how \in ConnectOutcomes :
          /\ conn_how' = how
          /\ NoExchange(addr_ok(how))
          /\ IF ~addr_ok(how)
             THEN /\ conn_ret' = FALSE
                  /\ made' = {}
                  /\ UNCHANGED << cli_sd, open_fds, connected >>
             ELSE IF how = "no_socket" \/ Cardinality(open_fds) >= MaxOpen
             THEN /\ cli_sd' = -1
                  /\ conn_ret' = FALSE
                  /\ made' = {}
                  /\ UNCHANGED << open_fds, connected >>
             ELSE /\ cli_sd' = NewFd
                  /\ made' = {NewFd}
                  /\ open_fds' = open_fds \cup {NewFd}
                  /\ connected' = IF how = "ok" THEN connected \cup {NewFd}
                                                ELSE connected
                  /\ conn_ret' = (how = "ok")
    /\ last_call' = "connect"
    /\ sd0' = cli_sd
    /\ closed' = {}
    /\ UNCHANGED << little_endian, pc, block, packet, len, r_byte, w_byte >>

(***************************************************************************)
(* jbod_disconnect (net.c:172-176): close(cli_sd); cli_sd = -1.  close of  *)
(* a descriptor that is not open fails and changes nothing.                *)
(***************************************************************************)
after_disconnect_kept(sd) == sd

after_disconnect(sd) == -1

jbod_disconnect ==
    /\ pc = "idle"
    /\ closed' = {cli_sd}
    /\ open_fds' = open_fds \ {cli_sd}
    /\ connected' = connected \ {cli_sd}
    /\ cli_sd' = after_disconnect(cli_sd)
    /\ last_call' = "disconnect"
    /\ sd0' = cli_sd
    /\ conn_how' = "none"
    /\ made' = {}
    /\ NoExchange(TRUE)
    /\ UNCHANGED << little_endian, pc, block, packet, len, r_byte, w_byte,
                    conn_ret >>

(***************************************************************************)
(* jbod_client_operation (net.c:184-201), entry: send_packet builds the    *)
(* packet and calls nwrite.  The caller chooses op and the contents of its *)
(* buffer.  Calls are followed from the states in which the connection    *)
(* holds no unread byte of an earlier exchange: the bytes an exchange left *)
(* unread are in instream when it returns, and stay there.                 *)
(***************************************************************************)
jbod_client_operation ==
    /\ pc = "idle"
    /\ instream = << >>
    /\ \E o \in Ops, blk \in Blocks :
         \E junk \in JunkFor(o) :
         LET request == send_packet(o, blk, junk) IN
            /\ op' = o
            /\ block' = blk
            /\ block0' = blk
            /\ packet' = request
            /\ len' = Len(request)
            /\ req_len' = Len(request)
    /\ resp0' = instream
    /\ pc' = "send"
    /\ sent_ok' = FALSE
    /\ w_byte' = 0
    /\ r_byte' = 0
    /\ outstream' = << >>
    /\ returned' = FALSE
    /\ err' = FALSE
    /\ zero_reads' = 0
    /\ partials' = 0
    /\ over' = FALSE
    /\ nreads' = 0
    /\ status' = FALSE
    /\ rop' = 0
    /\ ret' = 0
    /\ result' = 0
    /\ last_call' = "operation"
    /\ sd0' = cli_sd
    /\ conn_how' = "none"
    /\ made' = {}
    /\ closed' = {}
    /\ UNCHANGED << little_endian, cli_sd, open_fds, connected, conn_ret,
                    instream, in_eof >>

\* jbod_client_operation returns v; its locals and those of its callees die
OpReturn(v) ==
    /\ pc' = "idle"
    /\ result' = v
    /\ returned' = TRUE
    /\ status' = (v = 0)
    /\ packet' = << >>
    /\ len' = 0
    /\ r_byte' = 0
    /\ w_byte' = 0

(***************************************************************************)
(* One iteration of the loop of nwrite (net.c:44-50): a write, then the    *)
(* error test.  A failure returns false through send_packet, and           *)
(* jbod_client_operation returns -1 (net.c:187-190).                       *)
(***************************************************************************)
WriteStep ==
    /\ pc \in {"send", "nwrite"}
    /\ nwrite_loop(w_byte, len)
    /\ \E num \in WriteOutcomes(len - w_byte) :
          /\ err' = (err \/ num = -1)
          /\ over' = (over \/ w_byte >= len)
          /\ partials' = Partials(len - w_byte, num)
          /\ IF nwrite_failed(num)
             THEN /\ IF pc = "nwrite"
                     THEN /\ pc' = "write_done"
                          /\ status' = FALSE
                          /\ UNCHANGED << result, returned, packet, len,
                                          r_byte, w_byte >>
                     ELSE OpReturn(-1)
                  /\ UNCHANGED outstream
             ELSE /\ w_byte' = w_byte + num
                  /\ outstream' = outstream \o Slice(packet, w_byte, num)
                  /\ UNCHANGED << pc, status, result, returned, packet, len,
                                  r_byte >>
    /\ UNCHANGED << little_endian, cli_sd, open_fds, connected, op, block, rop,
                    ret, conn_ret, call_hist, instream, in_eof, block0, resp0,
                    req_len, sent_ok, zero_reads, nreads >>

(***************************************************************************)
(* nwrite leaves its loop and returns true; send_packet returns true;      *)
(* jbod_client_operation calls recv_packet, which calls                    *)
(* nread(sd, HEADER_LEN, packet) on its own uninitialised packet[].        *)
(* The peer has the request now and answers it, unless it has closed its   *)
(* end; the answer arrives behind the bytes that are still unread.         *)
(***************************************************************************)
SendDone ==
    /\ pc = "send"
    /\ ~nwrite_loop(w_byte, len)
    /\ \E kind \in RespKinds(op) :
          LET answer == IF in_eof THEN << >>
                        ELSE RespBytes(op, outstream, kind)
          IN  /\ instream' = instream \o answer
              /\ resp0' = instream \o answer
              /\ in_eof' = (in_eof \/ RespEof(kind))
    /\ pc' = "recv_hdr"
    /\ status' = TRUE
    /\ sent_ok' = TRUE
    /\ packet' = [i \in 1..HEADER_LEN |-> 0]
    /\ len' = HEADER_LEN
    /\ r_byte' = 0
    /\ w_byte' = 0
    /\ nreads' = nreads + 1
    /\ partials' = 0
    /\ UNCHANGED << little_endian, cli_sd, open_fds, connected, op, block, rop,
                    ret, result, returned, conn_ret, call_hist, outstream,
                    block0, req_len, err, zero_reads, over >>

(***************************************************************************)
(* One iteration of the loop of nread (net.c:25-33): a read into           *)
(* &buf[r_byte], then the error test.  buf is packet[] for the header and  *)
(* the caller's block for the block.  A failure returns false through      *)
(* recv_packet, and jbod_client_operation returns -1 (net.c:195-198).      *)
(***************************************************************************)
ReadStep ==
    /\ pc \in {"recv_hdr", "recv_blk", "nread"}
    /\ nread_loop(r_byte, len)
    /\ \E num \in ReadOutcomes(len - r_byte) :
          /\ err' = (err \/ num = -1)
          /\ over' = (over \/ r_byte >= len)
          /\ zero_reads' = IF num = 0 THEN zero_reads + 1 ELSE zero_reads
          /\ partials' = Partials(len - r_byte, num)
          /\ IF nread_failed(num)
             THEN /\ IF pc = "nread"
                     THEN /\ pc' = "read_done"
                          /\ status' = FALSE
                          /\ UNCHANGED << result, returned, packet, len,
                                          r_byte, w_byte >>
                     ELSE OpReturn(-1)
                  /\ UNCHANGED << instream, block >>
             ELSE /\ r_byte' = r_byte + num
                  /\ instream' = Drop(instream, num)
                  /\ IF pc = "recv_blk"
                     THEN /\ block' = CopyIn(block, r_byte,
                                             Take(instream, num))
                          /\ UNCHANGED packet
                     ELSE /\ packet' = CopyIn(packet, r_byte,
                                              Take(instream, num))
                          /\ UNCHANGED block
                  /\ UNCHANGED << pc, status, result, returned, len, w_byte >>
    /\ UNCHANGED << little_endian, cli_sd, open_fds, connected, op, rop, ret,
                    conn_ret, call_hist, in_eof, outstream, block0, resp0,
                    req_len, sent_ok, nreads >>

(***************************************************************************)
(* recv_packet after the header (net.c:79-98): copy out op and ret, test   *)
(* bit 0, then bit 1.                                                      *)
(***************************************************************************)
RecvHeaderDone ==
    /\ pc = "recv_hdr"
    /\ ~nread_loop(r_byte, len)
    /\ rop' = BytesWord(Take(packet, 4))
    /\ ret' = packet[5]
    /\ IF recv_failed(packet[5])
       THEN /\ OpReturn(-1)
            /\ UNCHANGED << nreads, partials, zero_reads >>
       ELSE IF recv_has_block(packet[5])
       THEN /\ pc' = "recv_blk"
            /\ len' = JBOD_BLOCK_SIZE
            /\ r_byte' = 0
            /\ nreads' = nreads + 1
            /\ partials' = 0
            /\ zero_reads' = 0
            /\ UNCHANGED << status, result, returned, packet, w_byte >>
       ELSE /\ OpReturn(0)
            /\ UNCHANGED << nreads, partials, zero_reads >>
    /\ UNCHANGED << little_endian, cli_sd, open_fds, connected, op, block,
                    conn_ret, call_hist, instream, in_eof, outstream, block0,
                    resp0, req_len, sent_ok, err, over >>

\* the block has been read in full: recv_packet returns true (net.c:98),
\* jbod_client_operation returns 0 (net.c:200)
RecvBlockDone ==
    /\ pc = "recv_blk"
    /\ ~nread_loop(r_byte, len)
    /\ OpReturn(0)
    /\ UNCHANGED << little_endian, cli_sd, open_fds, connected, op, block, rop,
                    ret, conn_ret, call_hist, instream, in_eof, outstream,
                    block0, resp0, req_len, sent_ok, err, zero_reads, partials,
                    over, nreads >>

Next ==
    \/ jbod_connect
    \/ jbod_disconnect
    \/ jbod_client_operation
    \/ WriteStep
    \/ SendDone
    \/ ReadStep
    \/ RecvHeaderDone
    \/ RecvBlockDone

Spec == Init /\ [][Next]_vars

(***************************************************************************)
(* SpecIO: nread and nwrite on their own.  A transfer of len bytes,        *)
(* 0 <= len <= MaxLen, on a connected descriptor; for nread the peer has   *)
(* sent any number of bytes and may or may not have closed after them.     *)
(***************************************************************************)
IoData == [i \in 1..(MaxLen + 1) |-> 100 + i]
IoBuf == [i \in 1..MaxLen |-> 10 + i]

InitIO ==
    /\ little_endian \in BOOLEAN
    /\ cli_sd = FirstFd
    /\ open_fds = {FirstFd}
    /\ connected = {FirstFd}
    /\ pc \in {"nread", "nwrite"}
    /\ len \in 0..MaxLen
    /\ IF pc = "nread"
       THEN /\ packet = [i \in 1..MaxLen |-> 0]
            /\ instream \in {Take(IoData, k) : k \in 0..(MaxLen + 1)}
            /\ in_eof \in BOOLEAN
       ELSE /\ packet = IoBuf
            /\ instream = << >>
            /\ in_eof = FALSE
    /\ resp0 = instream
    /\ op = 0
    /\ block = BlockAA
    /\ block0 = BlockAA
    /\ r_byte = 0
    /\ w_byte = 0
    /\ status = FALSE
    /\ rop = 0
    /\ ret = 0
    /\ result = 0
    /\ returned = FALSE
    /\ conn_ret = TRUE
    /\ last_call = "connect"
    /\ sd0 = -1
    /\ conn_how = "ok"
    /\ made = {FirstFd}
    /\ closed = {}
    /\ outstream = << >>
    /\ req_len = 0
    /\ sent_ok = FALSE
    /\ err = FALSE
    /\ zero_reads = 0
    /\ partials = 0
    /\ over = FALSE
    /\ nreads = 0

\* nread / nwrite leaves its loop and returns true (net.c:35, net.c:52)
IoDone ==
    /\ \/ pc = "nread" /\ ~nread_loop(r_byte, len) /\ pc' = "read_done"
       \/ pc = "nwrite" /\ ~nwrite_loop(w_byte, len) /\ pc' = "write_done"
    /\ status' = TRUE
    /\ UNCHANGED << little_endian, cli_sd, open_fds, connected, op, block,
                    packet, len, r_byte, w_byte, rop, ret, result, returned,
                    conn_ret, call_hist, instream, in_eof, outstream, block0,
                    resp0, req_len, sent_ok, err, zero_reads, partials, over,
                    nreads >>

NextIO ==
    \/ ReadStep
    \/ WriteStep
    \/ IoDone

SpecIO == InitIO /\ [][NextIO]_vars

(***************************************************************************)
(* Properties of nread and nwrite, checked under SpecIO.                   *)
(***************************************************************************)

\* C1: in a transfer of len bytes in which no read/write reports an error,
\* nread and nwrite return true with exactly len bytes moved: at every moment
\* the bytes moved so far are the first bytes of the stream and of the buffer
\* in the same order (nread: buf[i] is byte i of the stream and the rest of
\* buf is untouched; nwrite: the stream is buf[0..w_byte-1]), and no read or
\* write is issued once len bytes have moved.
C1_TransferExact ==
    /\ pc \in {"nread", "read_done"} =>
          /\ Consumed = r_byte
          /\ Take(packet, r_byte) = Take(resp0, r_byte)
          /\ \A i \in (r_byte + 1)..Len(packet) : packet[i] = 0
    /\ pc \in {"nwrite", "write_done"} => outstream = Take(packet, w_byte)
    /\ ~over
    /\ (pc = "read_done" /\ ~err) => (status = TRUE /\ r_byte = len)
    /\ (pc = "write_done" /\ ~err) => (status = TRUE /\ w_byte = len)

\* C1 witness: nread returned true after three reads of one byte each
C1_Witness ==
    /\ pc = "read_done"
    /\ status = TRUE
    /\ len = 3
    /\ Take(packet, 3) = << 101, 102, 103 >>
    /\ Len(instream) = 2

\* C2: as soon as a read or write reports an error, first call or not, nread
\* and nwrite have returned false (no further call is made), and they never
\* return true with fewer than len bytes moved.
C2_ErrorFailsAtOnce ==
    /\ err => (pc \in {"read_done", "write_done"} /\ status = FALSE)
    /\ (pc = "read_done" /\ status = TRUE) => r_byte = len
    /\ (pc = "write_done" /\ status = TRUE) => w_byte = len

\* C2 witness: a write failed after two bytes of four had been written
C2_Witness ==
    /\ pc = "write_done"
    /\ err
    /\ status = FALSE
    /\ len = 4
    /\ outstream = << 11, 12 >>

(***************************************************************************)
(* Properties of an exchange, checked under Spec.                          *)
(***************************************************************************)
HeaderRead == Len(resp0) >= HEADER_LEN /\ Consumed >= HEADER_LEN
\* bit k of the status byte of the response header
StatusBit(k) == (resp0[HEADER_LEN] \div (2 ^ k)) % 2 = 1

\* C3: a read that returns 0 (the peer closed) before len bytes have arrived
\* makes nread return false, so that jbod_client_operation has returned -1.
C3_ZeroReadFails ==
    zero_reads > 0 => (pc = "idle" /\ returned /\ result = -1)

\* C4: once send_packet has returned true for an opcode whose command field
\* is WRITE_BLOCK, the endpoint has received exactly 261 bytes: the opcode in
\* big-endian order, a status byte 2, and the caller's 256-byte block; while
\* it is sending, what has been written is a prefix of these bytes.
C4_WriteRequest ==
    Cmd(op) = JBOD_WRITE_BLOCK =>
       LET request == BE4(op) \o << 2 >> \o block0
       IN  /\ pc = "send" => outstream = Take(request, Len(outstream))
           /\ sent_ok => (outstream = request /\ Len(outstream) = 261)

\* C4 witness: the request for 0x01045034 (bits set outside the command
\* field) with an all-0xAA block has been sent: 261 bytes, the last 256 0xAA
C4_Witness ==
    /\ sent_ok
    /\ op = 17059892
    /\ Len(outstream) = 261
    /\ Take(outstream, 5) = << 1, 4, 80, 52, 2 >>
    /\ Drop(outstream, 5) = BlockAA

\* C5: once send_packet has returned true for an opcode whose command field
\* is not WRITE_BLOCK, the endpoint has received exactly 4 bytes, the opcode
\* in big-endian order.
C5_ShortRequest ==
    (sent_ok /\ Cmd(op) # JBOD_WRITE_BLOCK) => outstream = BE4(op)

\* C6: when the status byte of the response header that was read has bit 0
\* set (0x01, 0x03), the exchange fails with the header as the only thing
\* read: the block read is never started, no byte beyond the 5 header bytes
\* is consumed, and the caller's buffer is untouched.
C6_ErrorStatusStops ==
    (HeaderRead /\ StatusBit(0)) =>
        /\ pc \in {"recv_hdr", "idle"}
        /\ Consumed = HEADER_LEN
        /\ nreads = 1
        /\ block = block0
        /\ pc = "idle" => (returned /\ result = -1)

\* C6 witness: status 0x03 with a block behind it: failure, block unread
C6_Witness ==
    /\ pc = "idle"
    /\ returned
    /\ result = -1
    /\ HeaderRead
    /\ resp0[HEADER_LEN] = 3
    /\ Len(instream) = JBOD_BLOCK_SIZE

\* C7: when the status byte of the response is 0x02 and the exchange has
\* returned, either the block read failed and the exchange failed, or the
\* exchange succeeded after exactly one more nread, of 256 bytes, which left
\* bytes 6..261 of the response unmodified and in order in the caller's
\* buffer.
C7_BlockRead ==
    (pc = "idle" /\ returned /\ HeaderRead /\ resp0[HEADER_LEN] = 2) =>
        IF err
        THEN result = -1 /\ nreads = 2
        ELSE /\ result = 0
             /\ nreads = 2
             /\ Consumed = HEADER_LEN + JBOD_BLOCK_SIZE
             /\ Len(block) = JBOD_BLOCK_SIZE
             /\ block = Slice(resp0, HEADER_LEN, JBOD_BLOCK_SIZE)

\* C7 witness: a block different from the caller's arrived in two reads
C7_Witness ==
    /\ pc = "idle"
    /\ returned
    /\ result = 0
    /\ HeaderRead
    /\ resp0[HEADER_LEN] = 2
    /\ block0 = BlockUp
    /\ block = BlockDown

\* C8: when the request for a WRITE_BLOCK opcode is echoed back unchanged and
\* the exchange returns without a transfer error, it has succeeded, the
\* opcode recv_packet stored has the command field of the opcode sent, and
\* the caller's buffer holds the block that was sent.
C8_RoundTrip ==
    (pc = "idle" /\ returned /\ sent_ok /\ ~err
        /\ Cmd(op) = JBOD_WRITE_BLOCK /\ resp0 = outstream) =>
        /\ result = 0
        /\ Cmd(rop) = Cmd(op)
        /\ block = block0

\* C9: when jbod_client_operation has returned, its result is 0 or -1, and
\* it is 0 exactly when the request was written in full, the 5 header bytes
\* were read, status bit 0 is clear and either status bit 1 is clear or the
\* 256-byte block was read in full; with bit 1 clear no block is read.
C9_ReturnValue ==
    (pc = "idle" /\ returned) =>
        /\ result \in {0, -1}
        /\ result = 0 <=>
              /\ req_len > 0 /\ Len(outstream) = req_len
              /\ HeaderRead
              /\ ~StatusBit(0)
              /\ \/ ~StatusBit(1)
                 \/ Consumed = HEADER_LEN + JBOD_BLOCK_SIZE
        /\ (result = 0 /\ ~StatusBit(1)) =>
              (Consumed = HEADER_LEN /\ nreads = 1 /\ block = block0)

\* C9 witness: opcode 0 answered by {opcode 0, status 0}: success, no block
C9_Witness ==
    /\ pc = "idle"
    /\ returned
    /\ result = 0
    /\ op = 0
    /\ resp0 = << 0, 0, 0, 0, 0 >>
    /\ nreads = 1

\* C10 as stated: after an exchange has returned, the caller's buffer differs
\* from what it held before the call only if the exchange succeeded and the
\* response status has bit 1 set.
C10_BufferFrame ==
    (pc = "idle" /\ returned /\ block # block0) =>
        (result = 0 /\ HeaderRead /\ StatusBit(1))

\* C10 amended: the caller's buffer is written only by the block read, which
\* is started only for a response whose status has bit 0 clear and bit 1 set:
\* at every moment the buffer holds the k block bytes received so far followed
\* by its own bytes from before the call.  So it is unchanged after a send
\* failure, a header read failure, a status with bit 0 set and a success
\* without bit 1; after a block read that fails with k bytes received its
\* first k bytes are the received ones and the exchange returns -1.
C10_BufferFrameAmended ==
    LET k == Max(Consumed - HEADER_LEN, 0)
    IN  /\ Len(block) = JBOD_BLOCK_SIZE
        /\ block = Slice(resp0, HEADER_LEN, k) \o Drop(block0, k)
        /\ k > 0 => (HeaderRead /\ ~StatusBit(0) /\ StatusBit(1))
        /\ (pc = "idle" /\ returned /\ k < JBOD_BLOCK_SIZE /\ HeaderRead
              /\ StatusBit(1)) => result = -1

\* C10 witness: the block read failed after 128 bytes: failure, and the
\* caller's buffer starts with the 128 received bytes
C10_Witness ==
    /\ pc = "idle"
    /\ returned
    /\ result = -1
    /\ Consumed = HEADER_LEN + 128
    /\ block # block0
    /\ Take(block, 128) = Take(BlockDown, 128)
    /\ Drop(block, 128) = Drop(block0, 128)

\* C11: when jbod_connect was called in the unconnected state (cli_sd = -1)
\* and its connect step failed, it has returned false and cli_sd is still -1.
C11_FailedConnectUnconnected ==
    (last_call = "connect" /\ conn_how = "refused" /\ sd0 = -1) =>
        (conn_ret = FALSE /\ cli_sd = -1)

\* C12: jbod_disconnect never gives the unconnected sentinel to close(): a
\* call made with cli_sd = -1 (at start, or after a disconnect) issues no
\* close on descriptor -1.
C12_NoCloseOfSentinel ==
    last_call = "disconnect" => -1 \notin closed

\* C13: when jbod_disconnect has returned, whatever the state it was called
\* in, cli_sd is -1 and the descriptor that was active before the call was
\* given to close() and is no longer open.
C13_DisconnectCloses ==
    last_call = "disconnect" =>
        /\ cli_sd = -1
        /\ closed = {sd0}
        /\ sd0 \notin open_fds
        /\ sd0 \notin connected

\* C13 witness: jbod_disconnect was called with the descriptor a successful
\* jbod_connect had stored; it is closed and cli_sd is -1
C13_Witness ==
    /\ last_call = "disconnect"
    /\ sd0 = FirstFd
    /\ cli_sd = -1
    /\ open_fds = {}
    /\ conn_ret = TRUE

\* the request of the exchange in progress, as send_packet encoded it
IsRequest(bytes) ==
    \E junk \in JunkFor(op) : bytes = send_packet(op, block0, junk)

IsRequestPrefix(bytes) ==
    \E junk \in JunkFor(op) :
        bytes = Take(send_packet(op, block0, junk), Len(bytes))

\* the exchange has begun to receive: recv_packet is running or has run
Receiving == pc \in {"recv_hdr", "recv_blk"} \/ nreads > 0 \/ Consumed > 0

C14_State ==
    /\ pc = "send" => (~Receiving /\ IsRequestPrefix(outstream))
    /\ Receiving => (sent_ok /\ Len(outstream) = req_len
                       /\ IsRequest(outstream))
    /\ last_call = "operation" => IsRequestPrefix(outstream)

C14_Step ==
    /\ (last_call' = "operation" /\ pc' = "send" /\ pc # "send") =>
          /\ pc = "idle"
          /\ last_call = "operation" => returned
          /\ outstream' = << >>
    /\ Len(outstream') > Len(outstream) =>
          /\ pc = "send"
          /\ pc' = "send"
          /\ outstream = Take(outstream', Len(outstream))
    /\ (pc \in {"recv_hdr", "recv_blk"} /\ pc' # "idle") =>
          outstream' = outstream

\* C14: exchanges are strictly sequential.  Within one call of
\* jbod_client_operation no byte of the response is read before the whole
\* encoded request has been written; the bytes written are the encoded
\* request, in order, appended only while the call is sending; and a call
\* begins to write only when the call before it has returned, so calls put
\* their requests on the stream in issue order, one request in flight.
C14_Sequential == []C14_State /\ [][C14_Step]_vars

\* C14 witness: the block of a response is being read, and the 261 bytes
\* of the WRITE_BLOCK request are all on the outbound stream
C14_Witness ==
    /\ pc = "recv_blk"
    /\ Consumed > HEADER_LEN
    /\ Len(outstream) = HEADER_LEN + JBOD_BLOCK_SIZE
    /\ IsRequest(outstream)
    /\ sent_ok

\* C15: when jbod_connect was given a malformed address it has returned
\* false, has created no socket, and cli_sd is what it was before the call,
\* whether that was -1 or the descriptor of a connection.
C15_BadAddress ==
    (last_call = "connect" /\ conn_how = "bad_addr") =>
        /\ conn_ret = FALSE
        /\ made = {}
        /\ cli_sd = sd0

\* C15 witness: jbod_connect with a malformed address was called while
\* connected: the connection's descriptor is still in cli_sd, still connected
C15_Witness ==
    /\ last_call = "connect"
    /\ conn_how = "bad_addr"
    /\ conn_ret = FALSE
    /\ sd0 = FirstFd
    /\ cli_sd = FirstFd
    /\ FirstFd \in connected
    /\ open_fds = {FirstFd}

\* C16: when the connect step of jbod_connect failed, the call has returned
\* false and the socket it had created is closed: no descriptor the failed
\* call created is still open.
C16_FailedConnectCloses ==
    (last_call = "connect" /\ conn_how = "refused") =>
        (conn_ret = FALSE /\ made \cap open_fds = {})

\* recv_packet has read the header and copied *op and *ret out of it
HeaderParsed == HeaderRead /\ pc \in {"idle", "recv_blk"}

\* C17: once recv_packet has read a header, the opcode it handed back is the
\* number whose big-endian encoding is the first 4 header bytes, on a host
\* of either byte order, and the status it handed back is the fifth byte.
C17_HeaderDecode ==
    HeaderParsed =>
        /\ rop = FromBE4(Take(resp0, 4))
        /\ ret = resp0[HEADER_LEN]

\* C18: after any sequence of calls of jbod_connect, jbod_disconnect and
\* jbod_client_operation, the sockets created and not yet closed are none
\* when cli_sd = -1 and cli_sd alone otherwise (so a jbod_connect made while
\* connected leaves no earlier descriptor open), and jbod_client_operation
\* does not change cli_sd.
C18_OneDescriptor ==
    /\ open_fds = (IF cli_sd = -1 THEN {} ELSE {cli_sd})
    /\ last_call = "operation" => cli_sd = sd0

\* the peer kept the response framing in this exchange: the inbound bytes are
\* one header, followed by one block exactly when status bit 1 is set
FramedResponse ==
    /\ Len(resp0) >= HEADER_LEN
    /\ Len(resp0) = HEADER_LEN + (IF StatusBit(1) THEN JBOD_BLOCK_SIZE ELSE 0)

\* jbod_client_operation has returned and no read or write of it failed
ReturnedNoTransferError == pc = "idle" /\ returned /\ sent_ok /\ ~err

C20_UnconnectedOperation ==
    (last_call = "operation" /\ sd0 = -1) =>
        /\ pc \in {"send", "idle"}
        /\ pc = "send" => (w_byte = 0 /\ w_byte < len
                             /\ WriteOutcomes(len - w_byte) = {-1})
        /\ pc = "idle" => (returned /\ result = -1 /\ err)
        /\ outstream = << >>
        /\ ~sent_ok
        /\ nreads = 0
        /\ Consumed = 0
        /\ cli_sd = -1
        /\ block = block0

\* C20 witness: a WRITE_BLOCK call made after jbod_disconnect has returned -1
C20_Witness ==
    /\ last_call = "operation"
    /\ sd0 = -1
    /\ pc = "idle"
    /\ returned
    /\ result = -1
    /\ Cmd(op) = JBOD_WRITE_BLOCK
    /\ conn_ret = TRUE
    /\ open_fds = {}

====
